---- MODULE Spec2Model ----
(***************************************************************************)
(* Model of StarTPMPS (tmps/star/tpmps.py): Trotterized time evolution of  *)
(* a purified matrix-product state under a star-topology propagator.       *)
(*                                                                         *)
(* The tensor library (mpnum), the canonicalizer and the compressors are   *)
(* external; they are modelled by their effect on an abstract chain        *)
(* (origin, length, l2 norm, canonical flag) and by the retained fidelity  *)
(* they return, which is an input of each evolve() call.  Scalars that are *)
(* floats in the program (norm, overlaps) are exact rationals <<n, d>>     *)
(* kept in lowest terms.  The Trotter error is counted in integer          *)
(* multiples of a unit error.                                              *)
(***************************************************************************)
EXTENDS Integers, Sequences, FiniteSets, TLC

VARIABLES
    phase,                  \* "new" | "ready" | "dead" (a call raised)
    propagator,             \* the pre-constructed StarMPPropagator
    cfg,                    \* compression configuration held by the base class
    psi_t,                  \* the chain held by the orchestrator
    system_index,
    pmps_compression_step,  \* ancilla-compression cadence counter
    last_overlap,
    cumulative_overlap,
    base_overlap,
    trotter_error,
    stepno,
    call,                   \* history: the last call, the length of the
                            \*   psi_0 it was given, and its outcome
    oplog,                  \* history: chain operations of the last evolve()
                            \*   since the last reset with a new state
    nevolve,                \* history: successful evolve() calls since the
                            \*   construction / the last reset with a new state
    fidlog,                 \* history: how many chain-wide compressions of
                            \*   the last evolve() returned each fidelity
    cadence,                \* history: sweep turns since the last ancilla-rank
                            \*   compression, and whether a reset replaced
                            \*   the state since the construction
    fresh                   \* history: a freshly constructed orchestrator fed
                            \*   the same state and the same evolve() calls

vars == <<phase, propagator, cfg, psi_t, system_index, pmps_compression_step,
          last_overlap, cumulative_overlap, base_overlap, trotter_error,
          stepno, call, oplog, nevolve, fidlog, cadence, fresh>>

----------------------------------------------------------------------------
(* Bounds of the model *)

MaxSteps == 2       \* evolve() calls between two resets with a new state
MaxFids == 3        \* fidelity draws of one evolve() call

----------------------------------------------------------------------------
(* Exact rationals <<numerator, denominator>>, denominator > 0 *)

RECURSIVE GCD(_, _)
GCD(a, b) == IF b = 0 THEN a ELSE GCD(b, a % b)

Reduce(q) ==
    LET g == GCD(q[1], q[2])
    IN  IF g = 0 THEN q ELSE <<q[1] \div g, q[2] \div g>>

One == <<1, 1>>
\* Products are reduced crosswise first, so that no intermediate grows.
Mul(p, q) ==
    LET a == Reduce(<<p[1], q[2]>>)
        b == Reduce(<<q[1], p[2]>>)
    IN  Reduce(<<a[1] * b[1], a[2] * b[2]>>)
Div(p, q) == Mul(p, <<q[2], q[1]>>)
Leq(p, q) == p[1] * q[2] <= q[1] * p[2]
Less(p, q) == p[1] * q[2] < q[1] * p[2]
Positive(q) == q[1] > 0 /\ q[2] > 0

----------------------------------------------------------------------------
(* Inputs *)

\* Retained fidelities a chain-wide compression may return, all in (0, 1].
Fidelities == {<<1, 1>>, <<1, 2>>}

\* Norm factors of one evolve() call: `gain` for each operator contraction
\* (the Trotter operators are only approximately unitary), `trunc` for each
\* local or ancilla-rank truncation.
Perturbations ==
    { [gain |-> <<3, 2>>, trunc |-> <<1, 2>>] }

\* Trotter sweep: (start_at, number of sites of trotter_mpo) pairs.
Step(at, n) == [start_at |-> at, sites |-> n]

\* Chain shapes of the propagators under study:
\*   the star sweep of a 5-site chain anchored at site 2,
\*   a 3-site chain anchored at the first site,
\*   a degenerate 2-site chain with a single-site operator.
Shapes ==
    { [L |-> 5, system_index |-> 2, step_trotter_error |-> 1,
       trotter_steps |-> <<Step(1, 2), Step(0, 2), Step(1, 2), Step(2, 2),
                           Step(3, 2), Step(3, 2), Step(2, 2), Step(1, 2)>>],
      [L |-> 3, system_index |-> 0, step_trotter_error |-> 2,
       trotter_steps |-> <<Step(0, 2), Step(1, 2), Step(1, 2), Step(0, 2)>>],
      [L |-> 2, system_index |-> 1, step_trotter_error |-> 3,
       trotter_steps |-> <<Step(0, 2), Step(1, 1), Step(0, 2)>>] }

Propagators ==
    { [L |-> s.L, system_index |-> s.system_index,
       step_trotter_error |-> s.step_trotter_error,
       trotter_steps |-> s.trotter_steps,
       ancilla_sites |-> a, build_adj |-> b, to_cform |-> "left"]
      : s \in Shapes, a \in BOOLEAN, b \in BOOLEAN }

\* Chains a caller may pass as psi_0: need not be normalized, and the length
\* may or may not be the propagator's.
Chain(o, l, n) == [origin |-> o, len |-> l, norm |-> n, canonical |-> FALSE]
NoChain == [origin |-> "none", len |-> 0, norm |-> <<0, 1>>,
            canonical |-> FALSE]
NewChains(o, L) ==
    { Chain(o, L, <<1, 1>>), Chain(o, L, <<2, 1>>), Chain(o, L + 1, <<1, 1>>) }

\* Configurations the base class derives from state_compression_kwargs.
\* compress_sites is FALSE when no ancilla-compression period is configured
\* (compress_sites_step is None in the program, 0 here and never read).
Config(fc, fin, ce, cs, p) ==
    [full_compression |-> fc, final_compression |-> fin,
     canonicalize_every_step |-> ce, compress_sites |-> cs,
     compress_sites_step |-> p]
Periods == {1, 2}
Configs ==
    { Config(fc, fin, ce, TRUE, p)
      : fc \in BOOLEAN, fin \in BOOLEAN, ce \in BOOLEAN, p \in Periods }
    \cup { Config(fc, fin, ce, FALSE, 0)
      : fc \in BOOLEAN, fin \in BOOLEAN, ce \in BOOLEAN }
NoConfig == Config(FALSE, FALSE, FALSE, FALSE, 0)

\* psi_0_compression_kwargs: None, or parameters under which compress_pmps
\* scales the norm of the initial state by `loss`.
NoKwargs == [given |-> FALSE, loss |-> <<1, 1>>]
Psi0Kwargs == {NoKwargs, [given |-> TRUE, loss |-> <<1, 2>>]}

\* state_compression_kwargs of reset(): None keeps the configuration, an
\* empty dict selects the default compression.
DefaultConfig == Config(TRUE, FALSE, FALSE, FALSE, 0)
ResetConfigs(c) == {c, DefaultConfig}

----------------------------------------------------------------------------
(* Library routines, by their effect on the chain *)

\* tmps.utils.cform.canonicalize_to: gauge change, the norm is kept.
canonicalize_to(psi) == [psi EXCEPT !.canonical = TRUE]

\* tmps.utils.compress.compress_pmps on an initial state.
compress_pmps(psi, kw) ==
    [psi EXCEPT !.canonical = TRUE, !.norm = Mul(@, kw.loss)]

\* mp.partialdot: contraction of a local operator into the chain.
partialdot(psi, gain) ==
    [psi EXCEPT !.canonical = FALSE, !.norm = Mul(@, gain)]

\* MPArray.compress, the local compressor and compress_pmps_sites: rank
\* truncation scaling the norm by the factor f.
truncate(psi, f) == [psi EXCEPT !.canonical = TRUE, !.norm = Mul(@, f)]

\* psi_t /= mp.norm(psi_t)
normalize_state(psi) == [psi EXCEPT !.norm = Div(@, psi.norm)]

internal_normalize_state(psi) == [psi EXCEPT !.norm = Div(@, psi.norm)]

----------------------------------------------------------------------------
(* evolve() *)

\* An operation of evolve(): its kind, its offset (-1: the whole chain), the
\* position in trotter_steps it belongs to (0: before the loop, length + 1:
\* after it) and, for an advance of the cadence counter, the number of sweep
\* turns since the last ancilla-rank compression.
Ev(op, at, i, n) == [op |-> op, at |-> at, i |-> i, n |-> n]

\* No chain-wide compression made yet.
NoFids == [f \in Fidelities |-> 0]

\* The k-th fidelity drawn in one call.
Fid(inp, k) == inp.fids[IF k <= MaxFids THEN k ELSE MaxFids]

\* A sweep turn: the offset is a chain end and differs from the last one.
IsTurn(start_at, last_start_at) ==
    (start_at = propagator.L - 2 \/ start_at = 0) /\ start_at # last_start_at

\* psi_t.compress(**state_compression_kwargs), multiplied into overlap.
CompressChain(acc, inp, at) ==
    [acc EXCEPT !.psi = truncate(@, Fid(inp, acc.k + 1)),
                !.overlap = Mul(@, Fid(inp, acc.k + 1)),
                !.k = @ + 1,
                !.fids[Fid(inp, acc.k + 1)] = @ + 1,
                !.log = Append(@, Ev("compress", at, acc.i, 0))]

\* CompressionPolicy that compresses at every chain end, whatever the last
\* offset was.
CompressionPolicyEveryEnd(acc, st, inp) ==
    IF cfg.full_compression
    THEN IF st.start_at = propagator.L - 2 \/ st.start_at = 0
         THEN CompressChain(acc, inp, st.start_at)
         ELSE acc
    ELSE IF st.sites > 1
         THEN [acc EXCEPT !.psi = truncate(@, inp.trunc),
                          !.log = Append(@, Ev("lc", st.start_at, acc.i, 0))]
         ELSE acc

\* CompressionPolicy that falls back to the local compression whenever the
\* chain-wide compression did not fire.
CompressionPolicyFallsBack(acc, st, inp) ==
    IF cfg.full_compression /\ IsTurn(st.start_at, acc.last_start_at)
    THEN CompressChain(acc, inp, st.start_at)
    ELSE IF st.sites > 1
         THEN [acc EXCEPT !.psi = truncate(@, inp.trunc),
                          !.log = Append(@, Ev("lc", st.start_at, acc.i, 0))]
         ELSE acc

\* CompressionPolicy that counts the truncation of the local compression as
\* a fidelity factor of the step.
CompressionPolicyLocalCounts(acc, st, inp) ==
    IF cfg.full_compression
    THEN IF IsTurn(st.start_at, acc.last_start_at)
         THEN CompressChain(acc, inp, st.start_at)
         ELSE acc
    ELSE IF st.sites > 1
         THEN [acc EXCEPT !.psi = truncate(@, inp.trunc),
                          !.overlap = Mul(@, inp.trunc),
                          !.log = Append(@, Ev("lc", st.start_at, acc.i, 0))]
         ELSE acc

\* Lines 70-76: the compression policy after one contraction.
CompressionPolicy(acc, st, inp) ==
    IF cfg.full_compression
    THEN IF IsTurn(st.start_at, acc.last_start_at)
         THEN CompressChain(acc, inp, st.start_at)
         ELSE acc
    ELSE IF st.sites > 1
         THEN [acc EXCEPT !.psi = truncate(@, inp.trunc),
                          !.log = Append(@, Ev("lc", st.start_at, acc.i, 0))]
         ELSE acc

\* Lines 77-82: the ancilla-compression cadence.
Cadence(acc, st, inp) ==
    IF IsTurn(st.start_at, acc.last_start_at)
    THEN LET adv == Ev("advance", st.start_at, acc.i, acc.since + 1)
         IN  IF cfg.compress_sites
                /\ (acc.step + 1) - 1 = cfg.compress_sites_step
             THEN [acc EXCEPT !.psi = truncate(@, inp.trunc),
                              !.step = 1,
                              !.since = 0,
                              !.log = @ \o <<adv, Ev("compress_sites",
                                                     st.start_at, acc.i, 0)>>]
             ELSE [acc EXCEPT !.step = @ + 1,
                              !.since = @ + 1,
                              !.log = Append(@, adv)]
    ELSE acc

\* Line 69: the contraction of one iteration.
Contract(acc, st, inp) ==
    [acc EXCEPT !.psi = partialdot(@, inp.gain),
                !.i = @ + 1,
                !.log = Append(@, Ev("partialdot", st.start_at, acc.i + 1, 0))]

\* Lines 69-83: one iteration of the loop over trotter_steps.
SweepStep(acc, st, inp) ==
    LET dot == Contract(acc, st, inp)
        pol == CompressionPolicy(dot, st, inp)
        cad == Cadence(pol, st, inp)
    IN  [cad EXCEPT !.last_start_at = st.start_at]

RECURSIVE Sweep(_, _, _)
Sweep(acc, i, inp) ==
    IF i > Len(propagator.trotter_steps)
    THEN acc
    ELSE Sweep(SweepStep(acc, propagator.trotter_steps[i], inp), i + 1, inp)

\* SweepStart that takes the offset the sweep ends on as the offset recorded
\* before the first application.
SweepStartFromLastOffset(self) ==
    [psi |-> IF ~cfg.canonicalize_every_step
             THEN canonicalize_to(self.psi_t) ELSE self.psi_t,
     overlap |-> self.base_overlap,
     last_start_at |->
         propagator.trotter_steps[Len(propagator.trotter_steps)].start_at,
     step |-> self.pmps_compression_step,
     k |-> 0,
     i |-> 0,
     since |-> self.since,
     fids |-> NoFids,
     log |-> IF ~cfg.canonicalize_every_step
             THEN <<Ev("canonicalize", -1, 0, 0)>> ELSE <<>>]

\* The first j iterations of the loop over trotter_steps.
RECURSIVE SweepTo(_, _, _, _)
SweepTo(acc, i, j, inp) ==
    IF i > j
    THEN acc
    ELSE SweepTo(SweepStep(acc, propagator.trotter_steps[i], inp),
                 i + 1, j, inp)

\* Lines 64-67.
SweepStart(self) ==
    [psi |-> IF ~cfg.canonicalize_every_step
             THEN canonicalize_to(self.psi_t) ELSE self.psi_t,
     overlap |-> self.base_overlap,
     last_start_at |-> self.system_index,
     step |-> self.pmps_compression_step,
     k |-> 0,
     i |-> 0,
     since |-> self.since,
     fids |-> NoFids,
     log |-> IF ~cfg.canonicalize_every_step
             THEN <<Ev("canonicalize", -1, 0, 0)>> ELSE <<>>]

\* SweepEnd with the normalization made before the final compression.
SweepEndNormalizeFirst(acc, inp) ==
    LET end == [acc EXCEPT !.i = @ + 1]
        nrm == [end EXCEPT !.psi = internal_normalize_state(@),
                           !.log = Append(@, Ev("normalize", -1, end.i, 0))]
    IN  IF cfg.final_compression
        THEN CompressChain(nrm, inp, -1)
        ELSE IF ~cfg.canonicalize_every_step
             THEN [nrm EXCEPT !.psi = canonicalize_to(@),
                              !.log = Append(@, Ev("canonicalize", -1,
                                                   end.i, 0))]
             ELSE nrm

\* SweepEnd that re-canonicalizes after the final compression as well.
SweepEndAlwaysCanonical(acc, inp) ==
    LET end == [acc EXCEPT !.i = @ + 1]
        fin == IF cfg.final_compression
               THEN CompressChain(end, inp, -1) ELSE end
        can == IF ~cfg.canonicalize_every_step
               THEN [fin EXCEPT !.psi = canonicalize_to(@),
                                !.log = Append(@, Ev("canonicalize", -1,
                                                     end.i, 0))]
               ELSE fin
    IN  [can EXCEPT !.psi = internal_normalize_state(@),
                    !.log = Append(@, Ev("normalize", -1, end.i, 0))]

\* Lines 84-89.
SweepEnd(acc, inp) ==
    LET end == [acc EXCEPT !.i = @ + 1]
        fin == IF cfg.final_compression
               THEN CompressChain(end, inp, -1)
               ELSE IF ~cfg.canonicalize_every_step
                    THEN [end EXCEPT !.psi = canonicalize_to(@),
                                     !.log = Append(@, Ev("canonicalize", -1,
                                                          end.i, 0))]
                    ELSE end
    IN  [fin EXCEPT !.psi = internal_normalize_state(@),
                    !.log = Append(@, Ev("normalize", -1, end.i, 0))]

\* Commit that counts the Trotter error only while nothing was truncated.
CommitErrorSkipped(self, acc) ==
    [self EXCEPT !.psi_t = acc.psi,
                 !.cumulative_overlap = Mul(@, acc.overlap),
                 !.last_overlap = acc.overlap,
                 !.pmps_compression_step =
                     IF self.system_index = 0 THEN acc.step - 1 ELSE acc.step,
                 !.trotter_error =
                     IF acc.overlap = One
                     THEN @ + propagator.step_trotter_error ELSE @,
                 !.stepno = @ + 1,
                 !.since = acc.since]

\* Commit that stores the step's overlap as the cumulative overlap.
CommitOverwrite(self, acc) ==
    [self EXCEPT !.psi_t = acc.psi,
                 !.cumulative_overlap = acc.overlap,
                 !.last_overlap = acc.overlap,
                 !.pmps_compression_step =
                     IF self.system_index = 0 THEN acc.step - 1 ELSE acc.step,
                 !.trotter_error = @ + propagator.step_trotter_error,
                 !.stepno = @ + 1,
                 !.since = acc.since]

\* Lines 90-96: the bookkeeping committed after the sweep.
Commit(self, acc) ==
    [self EXCEPT !.psi_t = acc.psi,
                 !.cumulative_overlap = Mul(@, acc.overlap),
                 !.last_overlap = acc.overlap,
                 !.pmps_compression_step =
                     IF self.system_index = 0 THEN acc.step - 1 ELSE acc.step,
                 !.trotter_error = @ + propagator.step_trotter_error,
                 !.stepno = @ + 1,
                 !.since = acc.since]

\* The sweep of one evolve() call, to the final normalization.
EvolveSweep(self, inp) == SweepEnd(Sweep(SweepStart(self), 1, inp), inp)

\* evolve(): the fields after the call and the chain operations it made.
evolve(self, inp) ==
    LET acc == EvolveSweep(self, inp)
    IN  [self |-> Commit(self, acc), log |-> acc.log, fids |-> acc.fids]

\* The places of evolve() where a called operation raises a fatal error:
\* the contraction, the compression that follows it, the ancilla-rank
\* compressor, and the operations after the loop (lines 84-89).
FailPoints == {"partialdot", "compress", "compress_sites", "final"}

\* Line 78: the counter incremented, the ancilla-rank compressor not yet run.
Advanced(acc, st) ==
    [acc EXCEPT !.step = @ + 1,
                !.log = Append(@, Ev("advance", st.start_at, acc.i,
                                     acc.since + 1))]

\* Whether, after j complete iterations, the operation `at` is made next.
CanRaise(acc, j, at) ==
    LET n == Len(propagator.trotter_steps)
        st == propagator.trotter_steps[j + 1]
    IN  CASE at = "partialdot" -> j < n
          [] at = "compress" ->
                 j < n /\ IF cfg.full_compression
                          THEN IsTurn(st.start_at, acc.last_start_at)
                          ELSE st.sites > 1
          [] at = "compress_sites" ->
                 /\ j < n /\ cfg.compress_sites
                 /\ IsTurn(st.start_at, acc.last_start_at)
                 /\ (acc.step + 1) - 1 = cfg.compress_sites_step
          [] OTHER -> j = n

\* The loop state in which the operation `at` raises.
RaisedIn(acc, inp, j, at) ==
    CASE at = "compress" ->
             Contract(acc, propagator.trotter_steps[j + 1], inp)
      [] at = "compress_sites" ->
             Advanced(CompressionPolicy(
                          Contract(acc, propagator.trotter_steps[j + 1], inp),
                          propagator.trotter_steps[j + 1], inp),
                      propagator.trotter_steps[j + 1])
      [] OTHER -> acc

\* The fields an evolve() call leaves behind when it raises in loop state
\* acc: the chain and the cadence counter are updated in place.
LeftBehind(self, acc) ==
    [can |-> TRUE,
     self |-> [self EXCEPT !.psi_t = acc.psi,
                           !.pmps_compression_step = acc.step,
                           !.since = acc.since],
     log |-> acc.log, fids |-> acc.fids]

\* An evolve() call that cannot raise at the place asked for.
NotRaised(self) == [can |-> FALSE, self |-> self, log |-> <<>>, fids |-> NoFids]

\* After j complete iterations that ended in loop state acc, `at` raises.
RaiseAfter(self, acc, inp, j, at) ==
    IF CanRaise(acc, j, at)
    THEN LeftBehind(self, RaisedIn(acc, inp, j, at))
    ELSE NotRaised(self)

\* evolveFailed with the step counter and the Trotter error updated before
\* the sweep.
evolveFailedCountsFirst(self, inp, j, at) ==
    RaiseAfter([self EXCEPT !.trotter_error =
                                @ + propagator.step_trotter_error,
                            !.stepno = @ + 1],
               SweepTo(SweepStart(self), 1, j, inp), inp, j, at)

\* evolve() in which the operation `at` raises after j complete iterations
\* of the loop: the fields the call leaves behind, and whether the
\* operation is made at that place at all.
evolveFailed(self, inp, j, at) ==
    RaiseAfter(self, SweepTo(SweepStart(self), 1, j, inp), inp, j, at)

----------------------------------------------------------------------------
(* Construction and reset() *)

\* The fields of the orchestrator, as one record (`since` is the history
\* count of sweep turns since the last ancilla-rank compression).
Self ==
    [psi_t |-> psi_t, system_index |-> system_index,
     pmps_compression_step |-> pmps_compression_step,
     last_overlap |-> last_overlap, cumulative_overlap |-> cumulative_overlap,
     base_overlap |-> base_overlap, trotter_error |-> trotter_error,
     stepno |-> stepno, since |-> cadence.since]

\* PropagatorValid without the assertion on build_adj.
PropagatorValidAncillaOnly(p) == p.ancilla_sites

\* Lines 36-37: the propagator is valid for a pmps state.
PropagatorValid(p) == p.ancilla_sites /\ ~p.build_adj

\* Lines 42-45 and 153-156: canonicalize, or compress when compression
\* parameters for the initial state are given.
PrepareState(psi, kw) ==
    IF ~kw.given THEN canonicalize_to(psi) ELSE compress_pmps(psi, kw)

\* StarTMPBase.__init__: stores the state and the propagator; the chain must
\* have the propagator's length.
BaseInitOk(psi_0, p) == psi_0.len = p.L

\* Lines 30-56, once the base constructor and the assertions passed.
Constructed(psi_0, p, kw) ==
    [psi_t |-> normalize_state(PrepareState(psi_0, kw)),
     system_index |-> p.system_index,
     pmps_compression_step |-> 1,
     last_overlap |-> One, cumulative_overlap |-> One, base_overlap |-> One,
     trotter_error |-> 0,
     stepno |-> 0,
     since |-> 0]

\* ResetOwn that keeps the last-step overlap of the replaced state.
ResetOwnKeepsLast(self, arg, kw) ==
    IF ~arg.given
    THEN [self |-> self, psi_0 |-> NoChain]
    ELSE LET prepared == PrepareState(arg.psi_0, kw)
             held == IF arg.alias THEN prepared ELSE self.psi_t
             normed == normalize_state(held)
         IN  [self |-> [self EXCEPT !.psi_t = normed,
                                    !.pmps_compression_step = 0,
                                    !.cumulative_overlap = One,
                                    !.base_overlap = One,
                                    !.trotter_error = 0,
                                    !.stepno = 0,
                                    !.since = 0],
              psi_0 |-> IF arg.alias THEN normed ELSE prepared]

\* ResetOwn without the test for a new state: the counters are reset by
\* every call.
ResetOwnAlways(self, arg, kw) ==
    LET prepared == PrepareState(arg.psi_0, kw)
        normed == normalize_state(self.psi_t)
    IN  [self |-> [self EXCEPT !.psi_t = IF arg.given THEN normed ELSE @,
                               !.pmps_compression_step = 0,
                               !.last_overlap = One,
                               !.cumulative_overlap = One,
                               !.base_overlap = One,
                               !.trotter_error = 0,
                               !.stepno = 0,
                               !.since = 0],
         psi_0 |-> prepared]

\* Lines 152-164 of reset().  arg.alias says that the caller passed the very
\* chain object the orchestrator holds; otherwise psi_0 is another object and
\* normalize_state() divides the chain held so far.  Yields the fields and
\* the passed object as the statements left it.
ResetOwn(self, arg, kw) ==
    IF ~arg.given
    THEN [self |-> self, psi_0 |-> NoChain]
    ELSE LET prepared == PrepareState(arg.psi_0, kw)
             held == IF arg.alias THEN prepared ELSE self.psi_t
             normed == normalize_state(held)
         IN  [self |-> [self EXCEPT !.psi_t = normed,
                                    !.pmps_compression_step = 0,
                                    !.last_overlap = One,
                                    !.cumulative_overlap = One,
                                    !.base_overlap = One,
                                    !.trotter_error = 0,
                                    !.stepno = 0,
                                    !.since = 0],
              psi_0 |-> IF arg.alias THEN normed ELSE prepared]

\* StarTMPBase.reset: a new state must have the propagator's chain length
\* and replaces the held chain; compression parameters are stored when given.
BaseResetOk(arg, psi_0) == arg.given => psi_0.len = propagator.L

BaseReset(self, arg, psi_0) ==
    IF arg.given /\ BaseResetOk(arg, psi_0)
    THEN [self EXCEPT !.psi_t = psi_0, !.stepno = 0]
    ELSE self

\* reset() that does not delegate to the base class.
resetWithoutBase(self, arg, kw) ==
    LET own == ResetOwn(self, arg, kw)
    IN  [self |-> IF arg.given
                  THEN [own.self EXCEPT !.psi_t = own.psi_0]
                  ELSE own.self,
         ok |-> TRUE]

\* reset(): lines 152-165.
reset(self, arg, kw) ==
    LET own == ResetOwn(self, arg, kw)
    IN  [self |-> BaseReset(own.self, arg, own.psi_0),
         ok |-> BaseResetOk(arg, own.psi_0)]

----------------------------------------------------------------------------
(* The state machine *)

NoCall == [op |-> "none", len |-> 0, ok |-> TRUE]
Call(op, arg, ok) == [op |-> op, len |-> arg.psi_0.len, ok |-> ok]
Arg(given, alias, psi_0) == [given |-> given, alias |-> alias, psi_0 |-> psi_0]
NoArg == Arg(FALSE, FALSE, NoChain)

\* The runs of the ancilla-rank compressor in the operations of a call.
IsSitesRun(e) == e.op = "compress_sites"
SitesRuns(log) == SelectSeq(log, IsSitesRun)

\* The freshly constructed orchestrator: its cadence counter and the runs of
\* the ancilla-rank compressor in its last evolve().
Fresh(step, log) == [pmps_compression_step |-> step, log |-> SitesRuns(log)]

Assign(self) ==
    /\ psi_t' = self.psi_t
    /\ system_index' = self.system_index
    /\ pmps_compression_step' = self.pmps_compression_step
    /\ last_overlap' = self.last_overlap
    /\ cumulative_overlap' = self.cumulative_overlap
    /\ base_overlap' = self.base_overlap
    /\ trotter_error' = self.trotter_error
    /\ stepno' = self.stepno

Init ==
    /\ phase = "new"
    /\ propagator \in Propagators
    /\ cfg = NoConfig
    /\ psi_t = NoChain
    /\ system_index = 0
    /\ pmps_compression_step = 0
    /\ last_overlap = One
    /\ cumulative_overlap = One
    /\ base_overlap = One
    /\ trotter_error = 0
    /\ stepno = 0
    /\ call = NoCall
    /\ oplog = <<>>
    /\ nevolve = 0
    /\ fidlog = NoFids
    /\ cadence = [since |-> 0, reset |-> FALSE]
    /\ fresh = Fresh(0, <<>>)

\* StarTPMPS(psi_0, propagator, state_compression_kwargs, psi_0_compression_kwargs)
Construct ==
    /\ phase = "new"
    /\ \E psi_0 \in NewChains("a", propagator.L), c \in Configs, kw \in Psi0Kwargs :
         LET ok == BaseInitOk(psi_0, propagator) /\ PropagatorValid(propagator)
         IN  /\ call' = Call("construct", Arg(TRUE, FALSE, psi_0), ok)
             /\ IF ok
                THEN /\ phase' = "ready"
                     /\ cfg' = c
                     /\ Assign(Constructed(psi_0, propagator, kw))
                     /\ cadence' = [since |-> 0, reset |-> FALSE]
                     /\ fresh' = Fresh(1, <<>>)
                ELSE /\ phase' = "dead"
                     /\ UNCHANGED <<cfg, psi_t, system_index,
                                    pmps_compression_step, last_overlap,
                                    cumulative_overlap, base_overlap,
                                    trotter_error, stepno, cadence, fresh>>
    /\ UNCHANGED <<propagator, oplog, nevolve, fidlog>>

EvolveInputs ==
    { [fids |-> f, trunc |-> p.trunc, gain |-> p.gain]
      : f \in [1..MaxFids -> Fidelities], p \in Perturbations }

\* evolve()
Evolve ==
    /\ phase = "ready"
    /\ nevolve < MaxSteps
    /\ \E inp \in EvolveInputs :
         LET twin == [Self EXCEPT !.pmps_compression_step =
                                      fresh.pmps_compression_step]
             done == evolve(Self, inp)
             tdone == IF twin = Self THEN done ELSE evolve(twin, inp)
         IN  /\ Assign(done.self)
             /\ oplog' = done.log
             /\ fidlog' = done.fids
             /\ cadence' = [cadence EXCEPT !.since = done.self.since]
             /\ fresh' = Fresh(tdone.self.pmps_compression_step, tdone.log)
    /\ nevolve' = nevolve + 1
    /\ call' = Call("evolve", NoArg, TRUE)
    /\ UNCHANGED <<phase, propagator, cfg>>

\* The return values of the operations that preceded a fatal error: each
\* chain-wide compression made before it truncated.
FailInputs ==
    {inp \in EvolveInputs : \A k \in 1..MaxFids : inp.fids[k] = <<1, 2>>}

\* evolve() ending in a fatal error raised by one of the called operations.
EvolveFail ==
    /\ phase = "ready"
    /\ nevolve < MaxSteps
    /\ \E inp \in FailInputs, at \in FailPoints,
          j \in 0..Len(propagator.trotter_steps) :
         LET r == evolveFailed(Self, inp, j, at)
         IN  /\ r.can
             /\ Assign(r.self)
             /\ oplog' = r.log
             /\ fidlog' = r.fids
             /\ cadence' = [cadence EXCEPT !.since = r.self.since]
    /\ phase' = "dead"
    /\ call' = Call("evolve_raised", NoArg, FALSE)
    /\ UNCHANGED <<propagator, cfg, nevolve, fresh>>

\* reset(psi_0, state_compression_kwargs, psi_0_compression_kwargs) with a
\* new initial state.
ResetNew ==
    /\ phase = "ready"
    /\ \E arg \in {Arg(TRUE, FALSE, c) : c \in NewChains("b", propagator.L)}
                  \cup {Arg(TRUE, TRUE, psi_t)},
          kw \in Psi0Kwargs, c \in ResetConfigs(cfg) :
         LET r == reset(Self, arg, kw)
         IN  /\ Assign(r.self)
             /\ call' = Call("reset", arg, r.ok)
             /\ phase' = IF r.ok THEN "ready" ELSE "dead"
             /\ cfg' = IF r.ok THEN c ELSE cfg
             /\ cadence' = [since |-> r.self.since, reset |-> TRUE]
    /\ nevolve' = 0
    /\ oplog' = <<>>
    /\ fresh' = Fresh(1, <<>>)
    /\ UNCHANGED <<propagator, fidlog>>

\* reset(state_compression_kwargs=...) without a new initial state.
ResetKeep ==
    /\ phase = "ready"
    /\ \E c \in ResetConfigs(cfg) :
         LET r == reset(Self, NoArg, NoKwargs)
         IN  /\ Assign(r.self)
             /\ call' = Call("reset_keep", NoArg, r.ok)
             /\ cfg' = c
    /\ UNCHANGED <<phase, propagator, oplog, nevolve, fidlog, cadence, fresh>>

Next == Construct \/ Evolve \/ EvolveFail \/ ResetNew \/ ResetKeep

Spec == Init /\ [][Next]_vars

----------------------------------------------------------------------------
(* Properties *)

\* C1: after N successful evolve() calls since the construction or the last
\* reset with a new state, the step counter is N and the accumulated Trotter
\* error is N times the propagator's per-step error; the accumulated error
\* decreases only in a reset with a new state.
C1_StepAndError ==
    /\ [](/\ stepno = nevolve
          /\ trotter_error = nevolve * propagator.step_trotter_error)
    /\ [][trotter_error' < trotter_error => ResetNew]_vars

C1_Witness ==
    /\ call.op = "evolve"
    /\ psi_t.origin = "b"
    /\ nevolve = 2
    /\ stepno = 2
    /\ trotter_error = 2 * propagator.step_trotter_error

\* C2: with every chain-wide compression returning a fidelity in (0, 1],
\* the cumulative overlap is always in (0, 1], and no call other than a
\* reset with a new state increases it: it is non-increasing across
\* successive evolve() calls.
C2_CumulativeOverlap ==
    /\ [](Positive(cumulative_overlap) /\ Leq(cumulative_overlap, One))
    /\ [][~ResetNew => Leq(cumulative_overlap', cumulative_overlap)]_vars

C2_Witness ==
    /\ call.op = "evolve"
    /\ nevolve = 2
    /\ Less(last_overlap, One)
    /\ Less(cumulative_overlap, last_overlap)

\* C3: a successful reset() with a new initial state, after any history,
\* leaves the step counter at 0, the cumulative, last-step and base overlap
\* at 1 and the accumulated Trotter error at 0.
C3_ResetNewClears ==
    (call.op = "reset" /\ call.ok) =>
        /\ stepno = 0
        /\ cumulative_overlap = One
        /\ last_overlap = One
        /\ base_overlap = One
        /\ trotter_error = 0

\* A reset with a new state that follows an evolve() call which truncated.
C3_Witness ==
    /\ call.op = "reset" /\ call.ok
    /\ fidlog[<<1, 2>>] > 0
    /\ stepno = 0 /\ trotter_error = 0
    /\ cumulative_overlap = One /\ last_overlap = One /\ base_overlap = One

\* C4: reset() without a new initial state leaves the step counter, the
\* three overlaps, the accumulated Trotter error, the cadence counter and
\* the chain unchanged.
C4_ResetKeepFrame ==
    [][ResetKeep => UNCHANGED <<stepno, cumulative_overlap, last_overlap,
                                base_overlap, trotter_error,
                                pmps_compression_step, psi_t>>]_vars

\* A reset without a new state made after evolve() calls that truncated.
C4_Witness ==
    /\ call.op = "reset_keep"
    /\ stepno = 2
    /\ Less(cumulative_overlap, One)
    /\ Less(last_overlap, One)
    /\ trotter_error > 0
    /\ pmps_compression_step # 1

Count(log, op) == Cardinality({i \in 1..Len(log) : log[i].op = op})

\* C5: the chain has unit norm right after construction and right after
\* every evolve() call; in evolve() the normalization happens exactly once
\* and is the last operation on the chain.
C5_UnitNorm ==
    /\ (call.op = "construct" /\ call.ok) => psi_t.norm = One
    /\ call.op = "evolve" =>
           /\ psi_t.norm = One
           /\ Count(oplog, "normalize") = 1
           /\ oplog[Len(oplog)].op = "normalize"

\* An evolve() call whose sweep compressed the chain, made on a chain that
\* a reset had left without unit norm.
C5_Witness ==
    /\ call.op = "evolve"
    /\ psi_t.origin = "b"
    /\ psi_t.norm = One
    /\ Count(oplog, "compress") >= 2
    /\ Less(last_overlap, One)

\* C6: after a successful reset() with a new initial state the held chain is
\* that state, prepared and normalized: it has unit norm even when the
\* supplied state had not.
C6_ResetNormalizesNewState ==
    (call.op = "reset" /\ call.ok) =>
        /\ psi_t.len = call.len
        /\ psi_t.canonical
        /\ psi_t.norm = One

\* C7: reset() with a new initial state restores the cadence counter to its
\* value right after construction, so that the reset orchestrator and a
\* freshly constructed one, fed the same evolve() calls, run the
\* ancilla-rank compressor at the same sweep turns.
C7_ResetLikeFresh ==
    phase = "ready" =>
        /\ pmps_compression_step = fresh.pmps_compression_step
        /\ (call.op = "evolve" => SitesRuns(oplog) = fresh.log)

\* C8: construction with a propagator built without ancilla handling or in
\* adjoint mode ends in a fatal error and yields no orchestrator; it
\* succeeds only with the ancilla flag true and the adjoint flag false.
C8_ConstructionGuard ==
    /\ phase = "ready" => (propagator.ancilla_sites /\ ~propagator.build_adj)
    /\ (phase # "new" /\ ~(propagator.ancilla_sites /\ ~propagator.build_adj))
           => (phase = "dead" /\ call.op = "construct" /\ ~call.ok)

\* A construction that raised on an adjoint-mode propagator with ancilla
\* handling and a chain of the right length.
C8_Witness ==
    /\ phase = "dead"
    /\ call = [op |-> "construct", len |-> propagator.L, ok |-> FALSE]
    /\ propagator.ancilla_sites
    /\ propagator.build_adj

\* C9 as claimed: no operation other than a reset with a new state sets the
\* last-step, the cumulative or the base overlap back to 1 from below 1.
C9_NoOverlapBackToOne ==
    [][(\/ (Less(last_overlap, One) /\ last_overlap' = One)
        \/ (Less(cumulative_overlap, One) /\ cumulative_overlap' = One)
        \/ (Less(base_overlap, One) /\ base_overlap' = One))
       => ResetNew]_vars

\* C9 as amended: no operation other than a reset with a new state sets the
\* cumulative or the base overlap back to 1 from below 1; the last-step
\* overlap is set back to 1 from below 1 only by such a reset or by an
\* evolve() call, the cumulative overlap staying below 1 in the latter.
C9_CumulativeNotBackToOne ==
    /\ [][(\/ (Less(cumulative_overlap, One) /\ cumulative_overlap' = One)
           \/ (Less(base_overlap, One) /\ base_overlap' = One))
          => ResetNew]_vars
    /\ [][(Less(last_overlap, One) /\ last_overlap' = One)
          => (ResetNew \/ (Evolve /\ Less(cumulative_overlap', One)))]_vars

\* An evolve() call that truncated nothing, after one that did: the last-step
\* overlap is back at 1, the cumulative overlap is not.
C9_Witness ==
    /\ call.op = "evolve"
    /\ nevolve = 2
    /\ last_overlap = One
    /\ Less(cumulative_overlap, One)

\* C10: reset() with a new initial state whose chain length is not the
\* propagator's is rejected with a fatal error, and the state is not taken.
C10_ResetRejectsMismatch ==
    (call.op = "reset" /\ call.len # propagator.L) =>
        /\ ~call.ok
        /\ phase = "dead"
        /\ psi_t.len = propagator.L

C10_Witness ==
    /\ call = [op |-> "reset", len |-> propagator.L + 1, ok |-> FALSE]
    /\ phase = "dead"
    /\ psi_t.len = propagator.L

----------------------------------------------------------------------------
(* Properties of the sweep of one evolve() call *)

NSteps == Len(propagator.trotter_steps)
Offset(i) == propagator.trotter_steps[i].start_at
Sites(i) == propagator.trotter_steps[i].sites
PrevOffset(i) == IF i = 1 THEN system_index ELSE Offset(i - 1)

\* Position i of the step sequence is a sweep turn, by the offsets alone.
TurnAt(i) ==
    /\ Offset(i) \in {0, propagator.L - 2}
    /\ Offset(i) # PrevOffset(i)

\* The last evolve() made an operation of kind op for position i.
Has(op, i) == \E j \in 1..Len(oplog) : oplog[j].op = op /\ oplog[j].i = i

\* ... and made it right after the contraction of position i.
HasNext(op, i) ==
    \E j \in 1..(Len(oplog) - 1) :
        /\ oplog[j].op = "partialdot" /\ oplog[j].i = i
        /\ oplog[j + 1].op = op /\ oplog[j + 1].i = i
        /\ oplog[j + 1].at = Offset(i)

\* C11: in full-compression mode the chain-wide compression is made right
\* after the operator application at position i exactly when offset_i is 0
\* or L-2 and differs from the offset recorded before (the system index
\* for the first position); two consecutive applications at the same
\* offset never both trigger a compression or a cadence advance.
C11_FullCompressionAtTurns ==
    (call.op = "evolve" /\ cfg.full_compression) =>
        /\ \A i \in 1..NSteps :
               /\ Has("compress", i) <=> TurnAt(i)
               /\ Has("compress", i) => HasNext("compress", i)
        /\ \A i \in 2..NSteps :
               Offset(i) = Offset(i - 1) =>
                   /\ ~(Has("compress", i - 1) /\ Has("compress", i))
                   /\ ~(Has("advance", i - 1) /\ Has("advance", i))

\* A sweep that stays on a chain end for two applications and compressed
\* after the first of them only.
C11_Witness ==
    /\ call.op = "evolve" /\ cfg.full_compression
    /\ \E i \in 2..NSteps :
           /\ Offset(i) = Offset(i - 1)
           /\ Offset(i) = propagator.L - 2
           /\ HasNext("compress", i - 1)
           /\ ~Has("compress", i)

\* C12 as claimed: every operator application that does not trigger the
\* chain-wide compression and whose operator spans more than one site is
\* followed at once by a local rank reduction at its offset; single-site
\* operators are not; none is followed by both compressions.
C12_LocalWheneverNotFull ==
    call.op = "evolve" =>
        \A i \in 1..NSteps :
            /\ (~Has("compress", i) /\ Sites(i) > 1) => HasNext("lc", i)
            /\ Sites(i) = 1 => ~Has("lc", i)
            /\ ~(Has("compress", i) /\ Has("lc", i))

\* C12 as amended: with full compression off, an operator application is
\* followed at once by a local rank reduction at its offset exactly when
\* its operator spans more than one site; with full compression on, no
\* local rank reduction is made at all; no application is followed by both
\* a chain-wide and a local compression.
C12_LocalOnlyWithoutFullMode ==
    call.op = "evolve" =>
        \A i \in 1..NSteps :
            /\ ~cfg.full_compression =>
                   /\ Has("lc", i) <=> Sites(i) > 1
                   /\ Has("lc", i) => HasNext("lc", i)
                   /\ ~Has("compress", i)
            /\ cfg.full_compression => ~Has("lc", i)
            /\ ~(Has("compress", i) /\ Has("lc", i))

\* A sweep in full-compression mode with a two-site operator applied away
\* from a sweep turn: neither compression follows it.
C12_Witness ==
    /\ call.op = "evolve" /\ cfg.full_compression
    /\ \E i \in 1..NSteps :
           /\ Sites(i) > 1 /\ ~TurnAt(i)
           /\ Has("partialdot", i)
           /\ ~Has("compress", i) /\ ~Has("lc", i)

\* C13: counting the sweep turns over all evolve() calls since the
\* construction, the ancilla-rank compressor runs at a sweep turn exactly
\* when the number of sweep turns since its last run (or since the
\* construction), this one included, has reached the configured period.
C13_CompressorEveryPeriod ==
    (call.op = "evolve" /\ cfg.compress_sites /\ ~cadence.reset) =>
        \A j \in 1..Len(oplog) :
            oplog[j].op = "advance" =>
                ((j < Len(oplog) /\ oplog[j + 1].op = "compress_sites"
                                /\ oplog[j + 1].i = oplog[j].i)
                    <=> oplog[j].n >= cfg.compress_sites_step)

\* C14: with a period >= 1 the number of sweep turns since the last
\* ancilla-rank compression that the cadence counter encodes (the counter
\* minus one) is never negative and never exceeds the period.
C14_CadenceInRange ==
    (phase = "ready" /\ cfg.compress_sites /\ cfg.compress_sites_step >= 1) =>
        /\ pmps_compression_step - 1 >= 0
        /\ pmps_compression_step - 1 <= cfg.compress_sites_step

\* C15: with system index 0, an evolve() call that follows another one and
\* whose sweep starts at offset 0 increments the cadence counter at its
\* first operator application, making up for the decrement at the end of
\* the call before.
C15_DecrementCompensated ==
    (/\ call.op = "evolve" /\ nevolve >= 2
     /\ system_index = 0 /\ Offset(1) = 0) => Has("advance", 1)

RECURSIVE Power(_, _)
Power(f, n) == IF n = 0 THEN One ELSE Mul(f, Power(f, n - 1))

\* The product of the fidelities of a bag of chain-wide compressions.
RECURSIVE Product(_, _)
Product(fids, S) ==
    IF S = {}
    THEN One
    ELSE LET f == CHOOSE x \in S : TRUE
         IN  Mul(Power(f, fids[f]), Product(fids, S \ {f}))

\* The number of chain-wide compressions of a bag.
RECURSIVE Total(_, _)
Total(fids, S) ==
    IF S = {}
    THEN 0
    ELSE LET f == CHOOSE x \in S : TRUE
         IN  fids[f] + Total(fids, S \ {f})

\* The operations of kind op that the last evolve() made for position i.
CountAt(op, i) ==
    Cardinality({j \in 1..Len(oplog) : oplog[j].op = op /\ oplog[j].i = i})

C17_CanonicalizeAroundSweep ==
    call.op = "evolve" =>
        /\ CountAt("canonicalize", 0) =
               IF ~cfg.canonicalize_every_step THEN 1 ELSE 0
        /\ Has("canonicalize", 0) => oplog[1].op = "canonicalize"
        /\ \A i \in 1..NSteps : ~Has("canonicalize", i)
        /\ CountAt("compress", NSteps + 1) =
               IF cfg.final_compression THEN 1 ELSE 0
        /\ CountAt("canonicalize", NSteps + 1) =
               IF ~cfg.final_compression /\ ~cfg.canonicalize_every_step
               THEN 1 ELSE 0
        /\ ~(Has("compress", NSteps + 1) /\ Has("canonicalize", NSteps + 1))

\* A call that canonicalized before the sweep and ended with the final
\* compression, without canonicalizing again.
C17_Witness ==
    /\ call.op = "evolve"
    /\ cfg.final_compression /\ ~cfg.canonicalize_every_step
    /\ oplog[1].op = "canonicalize"
    /\ Has("compress", NSteps + 1)
    /\ ~Has("canonicalize", NSteps + 1)

C18_FailedEvolveKeepsBookkeeping ==
    /\ [][call'.op = "evolve_raised" =>
            UNCHANGED <<stepno, trotter_error, cumulative_overlap,
                        last_overlap>>]_vars
    /\ [][(stepno' = stepno + 1) =>
            (/\ call'.op = "evolve" /\ call'.ok
             /\ trotter_error' = trotter_error + propagator.step_trotter_error
             /\ cumulative_overlap' = Mul(cumulative_overlap, last_overlap'))]_vars

\* A call that failed in the ancilla-rank compressor after a call that had
\* succeeded and truncated: the cadence counter and the chain have changed.
C18_Witness ==
    /\ call.op = "evolve_raised" /\ phase = "dead"
    /\ stepno = 1 /\ trotter_error = propagator.step_trotter_error
    /\ Less(last_overlap, One) /\ cumulative_overlap = last_overlap
    /\ psi_t.norm # One
    /\ oplog # <<>> /\ oplog[Len(oplog)].op = "advance"
    /\ pmps_compression_step - 1 = cfg.compress_sites_step

====
